---- MODULE Spec2Model ----
(***************************************************************************)
(* luigi.contrib.hdfs.config: the client-selection policy                  *)
(* (get_configured_hdfs_client) and the temporary-path derivation          *)
(* (tmppath), with independent callers that invoke them concurrently.      *)
(*                                                                         *)
(* A Python str is a sequence of one-character strings.  An optional       *)
(* value is a sequence of length at most one: None is <<>> and the value v *)
(* is <<v>>, so that the empty str <<>> and None stay distinct.            *)
(***************************************************************************)
EXTENDS Integers, Sequences, FiniteSets, TLC

VARIABLES pc, path, include_unix_username, token, addon, tmp_dir,
          configured_hdfs_tmp_dir, base_dir, subdir, identity, result,
          error, custom, PY3, warned

vars == <<pc, path, include_unix_username, token, addon, tmp_dir,
          configured_hdfs_tmp_dir, base_dir, subdir, identity, result,
          error, custom, PY3, warned>>

\* Independent callers (threads of one worker, or workers on other hosts),
\* each making one call.
Callers == {"c1", "c2"}

None == <<>>
Some(v) == <<v>>
Val(o) == o[1]

----------------------------------------------------------------------------
(* str helpers, as CPython computes them *)

Min(S) == CHOOSE x \in S : \A y \in S : x <= y
Max(S) == CHOOSE x \in S : \A y \in S : x >= y

\* str.startswith
StartsWith(s, p) == Len(s) >= Len(p) /\ SubSeq(s, 1, Len(p)) = p

\* str.endswith
EndsWith(s, p) ==
    Len(s) >= Len(p) /\ SubSeq(s, Len(s) - Len(p) + 1, Len(s)) = p

\* s[n:] for 0 <= n
From(s, n) == SubSeq(s, n + 1, Len(s))

\* str.find(ch, start), in 1-based positions; 0 when ch does not occur
Find(s, ch, start) ==
    LET I == {i \in start..Len(s) : s[i] = ch}
    IN  IF I = {} THEN 0 ELSE Min(I)

\* str.rfind(ch), in 1-based positions; 0 when ch does not occur
RFind(s, ch) ==
    LET I == {i \in 1..Len(s) : s[i] = ch}
    IN  IF I = {} THEN 0 ELSE Max(I)

\* str.lstrip('/')
LStripSlash(s) ==
    LET I == {i \in 1..Len(s) : s[i] # "/"}
    IN  IF I = {} THEN <<>> ELSE SubSeq(s, Min(I), Len(s))

UpperCase == <<"A", "B", "C", "D", "E", "F", "G", "H", "I", "J", "K", "L", "M",
               "N", "O", "P", "Q", "R", "S", "T", "U", "V", "W", "X", "Y", "Z">>
LowerCase == <<"a", "b", "c", "d", "e", "f", "g", "h", "i", "j", "k", "l", "m",
               "n", "o", "p", "q", "r", "s", "t", "u", "v", "w", "x", "y", "z">>

\* str.lower, one character
LowerChar(ch) ==
    IF \E k \in 1..Len(UpperCase) : UpperCase[k] = ch
    THEN LowerCase[CHOOSE k \in 1..Len(UpperCase) : UpperCase[k] = ch]
    ELSE ch

\* str.lower
RECURSIVE Lower(_)
Lower(s) == IF s = <<>> THEN <<>> ELSE <<LowerChar(Head(s))>> \o Lower(Tail(s))

----------------------------------------------------------------------------
(* urllib.parse, imported at lines 31-34 *)

scheme_chars ==
    {UpperCase[k] : k \in 1..Len(UpperCase)} \cup
    {LowerCase[k] : k \in 1..Len(LowerCase)} \cup
    {"0", "1", "2", "3", "4", "5", "6", "7", "8", "9", "+", "-", "."}

uses_netloc ==
    { <<"f","t","p">>, <<"h","t","t","p">>, <<"h","t","t","p","s">>,
      <<"f","i","l","e">>, <<"s","f","t","p">>, <<"n","f","s">>,
      <<"g","i","t">>, <<"s","v","n">>, <<"w","s">>, <<"w","s","s">> }

uses_params ==
    { <<>>, <<"f","t","p">>, <<"h","t","t","p">>, <<"h","t","t","p","s">>,
      <<"s","f","t","p">>, <<"s","i","p">>, <<"s","i","p","s">>,
      <<"t","e","l">> }

\* _splitnetloc(url, 2): 1-based position of the first of "/", "?", "#"
\* at or after position 3, or Len(url) + 1
NetlocEnd(url) ==
    LET D == {Find(url, c, 3) : c \in {"/", "?", "#"}} \ {0}
    IN  IF D = {} THEN Len(url) + 1 ELSE Min(D)

\* _splitparams(url)
SplitParams(url) ==
    LET i == IF Find(url, "/", 1) > 0
             THEN Find(url, ";", RFind(url, "/"))
             ELSE Find(url, ";", 1)
    IN  IF i = 0 THEN [url |-> url, params |-> <<>>]
        ELSE [url |-> SubSeq(url, 1, i - 1), params |-> From(url, i)]

\* urlparse(url): the six components; valid is FALSE where urlsplit raises
\* ValueError("Invalid IPv6 URL")
urlparse(url) ==
    LET i       == Find(url, ":", 1)
        hasSch  == i > 1 /\ \A k \in 1..(i - 1) : url[k] \in scheme_chars
        scheme  == IF hasSch THEN Lower(SubSeq(url, 1, i - 1)) ELSE <<>>
        u1      == IF hasSch THEN From(url, i) ELSE url
        hasNet  == StartsWith(u1, <<"/", "/">>)
        netloc  == IF hasNet THEN SubSeq(u1, 3, NetlocEnd(u1) - 1) ELSE <<>>
        u2      == IF hasNet THEN From(u1, NetlocEnd(u1) - 1) ELSE u1
        open    == Find(netloc, "[", 1) > 0
        close   == Find(netloc, "]", 1) > 0
        h       == Find(u2, "#", 1)
        frag    == IF h > 0 THEN From(u2, h) ELSE <<>>
        u3      == IF h > 0 THEN SubSeq(u2, 1, h - 1) ELSE u2
        q       == Find(u3, "?", 1)
        query   == IF q > 0 THEN From(u3, q) ELSE <<>>
        u4      == IF q > 0 THEN SubSeq(u3, 1, q - 1) ELSE u3
        sp      == IF scheme \in uses_params /\ Find(u4, ";", 1) > 0
                   THEN SplitParams(u4)
                   ELSE [url |-> u4, params |-> <<>>]
    IN  [valid    |-> (open <=> close),
         scheme   |-> scheme,
         netloc   |-> netloc,
         path     |-> sp.url,
         params   |-> sp.params,
         query    |-> query,
         fragment |-> frag]

\* urlunparse((scheme, netloc, url, '', '', ''))
urlunparse(scheme, netloc, url) ==
    LET u1 == IF netloc # <<>> \/
                 (scheme # <<>> /\ scheme \in uses_netloc
                     /\ ~StartsWith(url, <<"/", "/">>))
              THEN <<"/", "/">> \o netloc \o
                   (IF url # <<>> /\ Head(url) # "/" THEN <<"/">> ELSE <<>>) \o url
              ELSE url
    IN  IF scheme # <<>> THEN scheme \o <<":">> \o u1 ELSE u1

----------------------------------------------------------------------------
(* os.path.join and the configuration layer *)

\* posixpath.join(a, b)
Join(a, b) ==
    IF StartsWith(b, <<"/">>) THEN b
    ELSE IF a = <<>> \/ EndsWith(a, <<"/">>) THEN a \o b
    ELSE a \o <<"/">> \o b

\* luigi.OptionalParameter: an unset or empty setting is None
OptionalParameter(setting) ==
    IF setting = None \/ Val(setting) = <<>> THEN None ELSE setting

----------------------------------------------------------------------------
(* get_configured_hdfs_client, lines 80-99 *)

hadoopcli == <<"h","a","d","o","o","p","c","l","i">>
snakebite == <<"s","n","a","k","e","b","i","t","e">>
snakebite_with_hadoopcli_fallback ==
    snakebite \o <<"_","w","i","t","h","_">> \o hadoopcli
        \o <<"_","f","a","l","l","b","a","c","k">>

conf_usinf_snakebite == {snakebite_with_hadoopcli_fallback, snakebite}

\* FallsBack without the test of the runtime
FallsBack_AnyRuntime(py3, client) == client \in conf_usinf_snakebite

\* line 92: the fallback test
FallsBack(py3, client) == py3 /\ client \in conf_usinf_snakebite

\* lines 92-99: the returned client
ConfiguredClient(py3, client) ==
    IF FallsBack(py3, client) THEN hadoopcli ELSE client

----------------------------------------------------------------------------
(* tmppath, lines 102-144 *)

luigitemp == <<"l","u","i","g","i","t","e","m","p","-">>

\* line 112
temp_dir == <<"/","t","m","p">>

\* Addon with the random token left out
Addon_NoToken(hex) == luigitemp

\* line 111: "luigitemp-%s" % uuid4().hex
Addon(hex) == luigitemp \o hex

\* lines 116-125: the parse of line 121 is reached and raises
BaseDirRaises(configured, p) ==
    configured = None /\ p # None /\ ~urlparse(Val(p)).valid

\* BaseDir with the target consulted before the configuration
BaseDir_TargetFirst(configured, p) ==
    IF p # None
    THEN urlunparse(urlparse(Val(p)).scheme, urlparse(Val(p)).netloc, temp_dir)
    ELSE IF configured # None THEN Val(configured) ELSE temp_dir

\* lines 116-125
BaseDir(configured, p) ==
    IF configured # None THEN Val(configured)
    ELSE IF p # None
         THEN urlunparse(urlparse(Val(p)).scheme, urlparse(Val(p)).netloc, temp_dir)
         ELSE temp_dir

\* lines 128-139: the parse of line 134 is reached and raises
SubdirRaises(p) ==
    p # None /\ ~StartsWith(Val(p), temp_dir \o <<"/">>) /\ ~urlparse(Val(p)).valid

\* Subdir echoing the whole target instead of its path component
Subdir_WholeTarget(p) ==
    IF p # None
    THEN LStripSlash(IF StartsWith(Val(p), temp_dir \o <<"/">>)
                     THEN From(Val(p), Len(temp_dir))
                     ELSE Val(p)) \o <<"-">>
    ELSE <<>>

\* Subdir without the test for a leading "/tmp/"
Subdir_NoTmpStrip(p) ==
    IF p # None THEN LStripSlash(urlparse(Val(p)).path) \o <<"-">> ELSE <<>>

\* Subdir testing the target's truth value instead of "is not None"
Subdir_EmptyAsNone(p) ==
    IF p # None /\ Val(p) # <<>>
    THEN LStripSlash(IF StartsWith(Val(p), temp_dir \o <<"/">>)
                     THEN From(Val(p), Len(temp_dir))
                     ELSE urlparse(Val(p)).path) \o <<"-">>
    ELSE <<>>

\* Subdir testing for the prefix "/tmp" without the separator
Subdir_PrefixNoSlash(p) ==
    IF p # None
    THEN LStripSlash(IF StartsWith(Val(p), temp_dir)
                     THEN From(Val(p), Len(temp_dir))
                     ELSE urlparse(Val(p)).path) \o <<"-">>
    ELSE <<>>

\* lines 128-139
Subdir(p) ==
    IF p # None
    THEN LStripSlash(IF StartsWith(Val(p), temp_dir \o <<"/">>)
                     THEN From(Val(p), Len(temp_dir))
                     ELSE urlparse(Val(p)).path) \o <<"-">>
    ELSE <<>>

\* GetuserRaises with the user looked up whether or not it is included
GetuserRaises_Always(inc, ident) == ident = None

\* lines 141-142: getpass.getuser() is called and finds no user
GetuserRaises(inc, ident) == inc /\ ident = None

\* lines 141-142, given the name getpass.getuser() returned
UserSubdir(user, sub) == Join(user, sub)

\* TempPath with the arguments of the join swapped
TempPath_Swapped(base, sub, add) == Join(sub \o add, base)

\* line 144
TempPath(base, sub, add) == Join(base, sub \o add)

----------------------------------------------------------------------------
(* The inputs the callers draw from *)

custom_dir == <<"/","c","u","s","t","o","m">>

\* Targets of the form scheme://netloc/P
UrlTargets ==
    { [scheme |-> <<"h","d","f","s">>,
       netloc |-> <<"n","n",":","8","0","2","0">>,
       P      |-> <<"a","/","b","/","c">>],
      [scheme |-> <<"H">>, netloc |-> <<"n">>, P |-> <<"/","a">>] }

Compose(t) == t.scheme \o <<":","/","/">> \o t.netloc \o <<"/">> \o t.P

Paths ==
    { <<>>,
      temp_dir,
      temp_dir \o <<"/">>,
      temp_dir \o <<"/","f","o","o">>,
      custom_dir \o <<"/","f","o","o">>,
      <<"s",":","/","/","n","/","a","?","q","#","f">>,
      <<"/","/","[","/","a">> }
    \cup {Compose(t) : t \in UrlTargets}

\* the path argument: None or a str
PathArgs == {None} \cup {Some(p) : p \in Paths}

\* uuid4().hex, shortened to two hexadecimal digits
Tokens == { <<"0","a">>, <<"a","0">> }

\* the hdfs-tmp-dir setting: unset, empty, or a directory
Settings == {None, Some(<<>>), Some(custom_dir)}

\* what the OS reports as the current user: a name, or None when no
\* environment variable and no password-database entry gives one
Identities == {None, Some(<<"b","o","b">>)}

\* the [hdfs] client setting
Clients ==
    { hadoopcli, snakebite, snakebite_with_hadoopcli_fallback,
      <<"w","e","b","h","d","f","s">>, <<"b","o","g","u","s">> }

----------------------------------------------------------------------------
(* The state machine *)

\* a caller has not made its call yet; each caller makes one call
Ready(c) == pc[c] = "idle"

Init ==
    /\ pc = [c \in Callers |-> "idle"]
    /\ identity \in [Callers -> Identities]
    /\ path = [c \in Callers |-> None]
    /\ include_unix_username = [c \in Callers |-> TRUE]
    /\ token = [c \in Callers |-> <<>>]
    /\ addon = [c \in Callers |-> <<>>]
    /\ tmp_dir = [c \in Callers |-> None]
    /\ configured_hdfs_tmp_dir = [c \in Callers |-> None]
    /\ base_dir = [c \in Callers |-> <<>>]
    /\ subdir = [c \in Callers |-> <<>>]
    /\ result = [c \in Callers |-> None]
    /\ error = [c \in Callers |-> "none"]
    /\ custom = [c \in Callers |-> None]
    /\ PY3 = [c \in Callers |-> FALSE]
    /\ warned = [c \in Callers |-> 0]

\* lines 102-111: entry of tmppath(p, inc), and the fresh addon
Call(c) ==
    /\ Ready(c)
    /\ \E p \in PathArgs, inc \in BOOLEAN, hex \in Tokens :
        /\ token' = [token EXCEPT ![c] = hex]
        /\ path' = [path EXCEPT ![c] = p]
        /\ include_unix_username' = [include_unix_username EXCEPT ![c] = inc]
        /\ addon' = [addon EXCEPT ![c] = Addon(hex)]
    /\ pc' = [pc EXCEPT ![c] = "resolve"]
    /\ tmp_dir' = [tmp_dir EXCEPT ![c] = None]
    /\ configured_hdfs_tmp_dir' = [configured_hdfs_tmp_dir EXCEPT ![c] = None]
    /\ base_dir' = [base_dir EXCEPT ![c] = <<>>]
    /\ subdir' = [subdir EXCEPT ![c] = <<>>]
    /\ result' = [result EXCEPT ![c] = None]
    /\ error' = [error EXCEPT ![c] = "none"]
    /\ custom' = [custom EXCEPT ![c] = None]
    /\ PY3' = [PY3 EXCEPT ![c] = FALSE]
    /\ warned' = [warned EXCEPT ![c] = 0]
    /\ UNCHANGED identity

\* Resolve with the prefix test made against the resolved base directory
Resolve_AgainstBase(c) ==
    /\ pc[c] = "resolve"
    /\ \E setting \in Settings :
        LET conf == OptionalParameter(setting)
            base == BaseDir(conf, path[c])
            p    == Val(path[c])
        IN  /\ ~BaseDirRaises(conf, path[c])
            /\ ~SubdirRaises(path[c])
            /\ tmp_dir' = [tmp_dir EXCEPT ![c] = setting]
            /\ configured_hdfs_tmp_dir' =
                   [configured_hdfs_tmp_dir EXCEPT ![c] = conf]
            /\ base_dir' = [base_dir EXCEPT ![c] = base]
            /\ subdir' = [subdir EXCEPT ![c] =
                   IF path[c] = None THEN <<>>
                   ELSE LStripSlash(IF StartsWith(p, base \o <<"/">>)
                                    THEN From(p, Len(base))
                                    ELSE urlparse(p).path) \o <<"-">>]
    /\ pc' = [pc EXCEPT ![c] = "user"]
    /\ UNCHANGED <<path, include_unix_username, token, addon, identity,
                   result, error, custom, PY3, warned>>

\* lines 112-139: read hdfs().tmp_dir, choose the base directory and derive
\* the subdirectory from the target
Resolve(c) ==
    /\ pc[c] = "resolve"
    /\ \E setting \in Settings :
        /\ tmp_dir' = [tmp_dir EXCEPT ![c] = setting]
        /\ configured_hdfs_tmp_dir' =
               [configured_hdfs_tmp_dir EXCEPT ![c] = OptionalParameter(setting)]
        /\ IF BaseDirRaises(OptionalParameter(setting), path[c])
           THEN /\ pc' = [pc EXCEPT ![c] = "raised"]
                /\ error' = [error EXCEPT ![c] = "ValueError"]
                /\ UNCHANGED <<base_dir, subdir>>
           ELSE /\ base_dir' = [base_dir EXCEPT ![c] =
                                   BaseDir(OptionalParameter(setting), path[c])]
                /\ IF SubdirRaises(path[c])
                   THEN /\ pc' = [pc EXCEPT ![c] = "raised"]
                        /\ error' = [error EXCEPT ![c] = "ValueError"]
                        /\ UNCHANGED subdir
                   ELSE /\ pc' = [pc EXCEPT ![c] = "user"]
                        /\ subdir' = [subdir EXCEPT ![c] = Subdir(path[c])]
                        /\ UNCHANGED error
    /\ UNCHANGED <<path, include_unix_username, token, addon, identity,
                   result, custom, PY3, warned>>

\* lines 141-144: prepend the user when asked to, and return the joined path
Return(c) ==
    /\ pc[c] = "user"
    /\ IF GetuserRaises(include_unix_username[c], identity[c])
       THEN /\ pc' = [pc EXCEPT ![c] = "raised"]
            /\ error' = [error EXCEPT ![c] = "KeyError"]
            /\ UNCHANGED <<subdir, result>>
       ELSE LET sub == IF include_unix_username[c]
                       THEN UserSubdir(Val(identity[c]), subdir[c])
                       ELSE subdir[c]
            IN  /\ pc' = [pc EXCEPT ![c] = "returned"]
                /\ subdir' = [subdir EXCEPT ![c] = sub]
                /\ result' = [result EXCEPT ![c] =
                                 Some(TempPath(base_dir[c], sub, addon[c]))]
                /\ UNCHANGED error
    /\ UNCHANGED <<path, include_unix_username, token, addon, tmp_dir,
                   configured_hdfs_tmp_dir, base_dir, identity, custom, PY3,
                   warned>>

\* lines 80-99: get_configured_hdfs_client()
GetConfiguredHdfsClient(c) ==
    /\ Ready(c)
    /\ \E client \in Clients, py3 \in BOOLEAN :
        /\ custom' = [custom EXCEPT ![c] = Some(client)]
        /\ PY3' = [PY3 EXCEPT ![c] = py3]
        /\ warned' = [warned EXCEPT ![c] = IF FallsBack(py3, client) THEN 1 ELSE 0]
        /\ result' = [result EXCEPT ![c] = Some(ConfiguredClient(py3, client))]
    /\ pc' = [pc EXCEPT ![c] = "client"]
    /\ path' = [path EXCEPT ![c] = None]
    /\ include_unix_username' = [include_unix_username EXCEPT ![c] = TRUE]
    /\ token' = [token EXCEPT ![c] = <<>>]
    /\ addon' = [addon EXCEPT ![c] = <<>>]
    /\ tmp_dir' = [tmp_dir EXCEPT ![c] = None]
    /\ configured_hdfs_tmp_dir' = [configured_hdfs_tmp_dir EXCEPT ![c] = None]
    /\ base_dir' = [base_dir EXCEPT ![c] = <<>>]
    /\ subdir' = [subdir EXCEPT ![c] = <<>>]
    /\ error' = [error EXCEPT ![c] = "none"]
    /\ UNCHANGED identity

Next ==
    \E c \in Callers :
        \/ Call(c)
        \/ Resolve(c)
        \/ Return(c)
        \/ GetConfiguredHdfsClient(c)

Spec == Init /\ [][Next]_vars

----------------------------------------------------------------------------
(* Vocabulary of the properties *)

\* tmppath has returned to caller c
Returned(c) == pc[c] = "returned"

\* caller c has no effective tmp_dir override: the setting is unset or empty
NoOverride(c) == tmp_dir[c] = None \/ tmp_dir[c] = Some(<<>>)

\* s without its leading "/" characters
RECURSIVE NoLeadingSlashes(_)
NoLeadingSlashes(s) ==
    IF s # <<>> /\ Head(s) = "/" THEN NoLeadingSlashes(Tail(s)) ELSE s

\* the user segment of caller c's result: "<user>/" when included, else ""
UserSegment(c) ==
    IF include_unix_username[c] THEN Val(identity[c]) \o <<"/">> ELSE <<>>

tmp_foo == <<"/","t","m","p","/","f","o","o">>
custom_foo == <<"/","c","u","s","t","o","m","/","f","o","o">>
query_url == <<"s",":","/","/","n","/","a","?","q","#","f">>

----------------------------------------------------------------------------
\* C1: two calls of tmppath that drew different random tokens return
\* different paths, whatever their arguments, configuration and user, and
\* however their steps interleave.
CollisionResistance ==
    \A c1, c2 \in Callers :
        (c1 # c2 /\ Returned(c1) /\ Returned(c2) /\ token[c1] # token[c2])
            => result[c1] # result[c2]

\* two returned calls for the same target, configuration and user, with
\* different tokens
CollisionResistanceWitness ==
    \E c1, c2 \in Callers :
        /\ c1 # c2 /\ Returned(c1) /\ Returned(c2)
        /\ token[c1] # token[c2]
        /\ path[c1] = Some(tmp_foo) /\ path[c2] = Some(tmp_foo)
        /\ tmp_dir[c1] = tmp_dir[c2]
        /\ include_unix_username[c1] /\ include_unix_username[c2]
        /\ identity[c1] = identity[c2]

\* caller c has resolved its base directory
BaseResolved(c) == pc[c] \in {"user", "returned"}

\* C2: the base directory is the non-empty tmp_dir override verbatim;
\* else, for a given target, a URL with the target's scheme and network
\* location, the path "/tmp" and no query or fragment; else "/tmp".
BaseDirPrecedence ==
    \A c \in Callers :
        BaseResolved(c) =>
            IF ~NoOverride(c) THEN base_dir[c] = Val(tmp_dir[c])
            ELSE IF path[c] # None
            THEN /\ LET b == urlparse(base_dir[c])
                         t == urlparse(Val(path[c]))
                     IN  /\ b.valid
                         /\ b.scheme = t.scheme
                         /\ b.netloc = t.netloc
                         /\ b.path = <<"/","t","m","p">>
                         /\ b.params = <<>>
                         /\ b.query = <<>>
                         /\ b.fragment = <<>>
                 /\ \A t \in UrlTargets :
                        path[c] = Some(Compose(t)) =>
                            base_dir[c] = Lower(t.scheme) \o <<":","/","/">>
                                              \o t.netloc \o <<"/","t","m","p">>
            ELSE base_dir[c] = <<"/","t","m","p">>

\* one caller with an override and a target that has a scheme, the other
\* with an empty override and a target that has a query and a fragment
BaseDirPrecedenceWitness ==
    \E c1, c2 \in Callers :
        /\ c1 # c2 /\ BaseResolved(c1) /\ BaseResolved(c2)
        /\ tmp_dir[c1] = Some(custom_dir)
        /\ \E t \in UrlTargets : path[c1] = Some(Compose(t))
        /\ tmp_dir[c2] = Some(<<>>)
        /\ path[c2] = Some(query_url)

\* C3: for a target scheme://netloc/P, no override and the user included,
\* the result is scheme://netloc/tmp/<user>/<P without leading
\* slashes>-luigitemp-<token>, the scheme as urlparse normalises it.
UrlTargetResult ==
    \A c \in Callers : \A t \in UrlTargets :
        (Returned(c) /\ NoOverride(c) /\ include_unix_username[c]
            /\ path[c] = Some(Compose(t)))
        => result[c] =
              Some(Lower(t.scheme) \o <<":","/","/">> \o t.netloc
                   \o <<"/","t","m","p","/">> \o Val(identity[c]) \o <<"/">>
                   \o NoLeadingSlashes(t.P)
                   \o <<"-","l","u","i","g","i","t","e","m","p","-">>
                   \o token[c])

\* hdfs://nn:8020/a/b/c has been given a temporary path under the user
UrlTargetResultWitness ==
    \E c \in Callers :
        /\ Returned(c) /\ NoOverride(c) /\ include_unix_username[c]
        /\ path[c] = Some(<<"h","d","f","s",":","/","/","n","n",":","8","0",
                            "2","0","/","a","/","b","/","c">>)

\* C4: for a target that starts with "/tmp/", the subdirectory is the
\* target without the leading "/tmp" and without the slashes that follow,
\* then "-"; "/tmp/foo" gives "foo-", and with no override the result is
\* /tmp/[<user>/]foo-luigitemp-<token>.
TmpPrefixStripped ==
    \A c \in Callers :
        /\ (pc[c] = "user" /\ path[c] # None
                /\ StartsWith(Val(path[c]), <<"/","t","m","p","/">>))
           => subdir[c] =
                 NoLeadingSlashes(SubSeq(Val(path[c]), 5, Len(Val(path[c]))))
                     \o <<"-">>
        /\ (pc[c] = "user" /\ path[c] = Some(tmp_foo))
           => subdir[c] = <<"f","o","o","-">>
        /\ (Returned(c) /\ NoOverride(c) /\ path[c] = Some(tmp_foo))
           => result[c] =
                 Some(<<"/","t","m","p","/">> \o UserSegment(c)
                      \o <<"f","o","o","-","l","u","i","g","i","t","e","m","p","-">>
                      \o token[c])

\* /tmp/foo has been given a temporary path with no override
TmpPrefixStrippedWitness ==
    \E c \in Callers :
        Returned(c) /\ NoOverride(c) /\ path[c] = Some(tmp_foo)

----------------------------------------------------------------------------
\* two returned calls that differ in nothing but the target, which is the
\* empty str for c1 and None for c2
EmptyAndAbsent(c1, c2) ==
    /\ Returned(c1) /\ Returned(c2)
    /\ path[c1] = Some(<<>>) /\ path[c2] = None
    /\ tmp_dir[c1] = tmp_dir[c2]
    /\ identity[c1] = identity[c2]
    /\ include_unix_username[c1] = include_unix_username[c2]
    /\ token[c1] = token[c2]

\* C5, as stated: tmppath("") returns the same path as tmppath(None).
EmptyEqualsAbsent ==
    \A c1, c2 \in Callers :
        EmptyAndAbsent(c1, c2) => result[c1] = result[c2]

\* C5, amended: tmppath("") and tmppath(None) have the same base directory,
\* and the result for "" is the result for None with one "-" inserted in
\* front of "luigitemp-".
EmptyAddsSeparator ==
    \A c1, c2 \in Callers :
        EmptyAndAbsent(c1, c2) =>
            LET r      == Val(result[c2])
                prefix == SubSeq(r, 1, Len(r) - Len(addon[c2]))
            IN  /\ base_dir[c1] = base_dir[c2]
                /\ r = prefix \o addon[c2]
                /\ result[c1] = Some(prefix \o <<"-">> \o addon[c1])

\* an empty and an absent target have both been given a temporary path
EmptyAddsSeparatorWitness ==
    \E c1, c2 \in Callers : EmptyAndAbsent(c1, c2)

\* C6, as stated: for the target "/tmp" or "/tmp/" with no override the
\* result does not begin with "/tmp/tmp".
NoDoubledTmp ==
    \A c \in Callers :
        (Returned(c) /\ NoOverride(c)
            /\ path[c] \in {Some(<<"/","t","m","p">>), Some(<<"/","t","m","p","/">>)})
        => ~StartsWith(Val(result[c]), <<"/","t","m","p","/","t","m","p">>)

\* C6, amended: with no override, the target "/tmp/" gives
\* /tmp/[<user>/]-luigitemp-<token>, and the target "/tmp" gives
\* /tmp/[<user>/]tmp-luigitemp-<token>, which begins with "/tmp/tmp" when
\* the user is not included; neither has a directory /tmp/tmp/.
TmpTargetResult ==
    \A c \in Callers :
        (Returned(c) /\ NoOverride(c)) =>
            /\ path[c] = Some(<<"/","t","m","p","/">>)
               => result[c] =
                     Some(<<"/","t","m","p","/">> \o UserSegment(c)
                          \o <<"-","l","u","i","g","i","t","e","m","p","-">>
                          \o token[c])
            /\ path[c] = Some(<<"/","t","m","p">>)
               => result[c] =
                     Some(<<"/","t","m","p","/">> \o UserSegment(c)
                          \o <<"t","m","p","-","l","u","i","g","i","t","e","m","p","-">>
                          \o token[c])
            /\ path[c] \in {Some(<<"/","t","m","p">>), Some(<<"/","t","m","p","/">>)}
               => ~StartsWith(Val(result[c]),
                              <<"/","t","m","p","/","t","m","p","/">>)

\* the target "/tmp" has been given a temporary path without the user
TmpTargetResultWitness ==
    \E c \in Callers :
        /\ Returned(c) /\ NoOverride(c) /\ ~include_unix_username[c]
        /\ path[c] = Some(<<"/","t","m","p">>)

\* dirname of a path
Parent(s) == SubSeq(s, 1, RFind(s, "/") - 1)

\* the path r lies below the directory d: r is d, a separator unless d ends
\* with one, and a non-empty relative path
Inside(r, d) ==
    LET rest == From(r, Len(d))
        rel  == IF EndsWith(d, <<"/">>) \/ rest = <<>> THEN rest ELSE Tail(rest)
    IN  /\ StartsWith(r, d)
        /\ (EndsWith(d, <<"/">>) \/ StartsWith(rest, <<"/">>))
        /\ rel # <<>>
        /\ Head(rel) # "/"

\* C7, as stated: two results with equal base directories lie inside that
\* directory and have the same parent directory.
Siblings ==
    \A c1, c2 \in Callers :
        (Returned(c1) /\ Returned(c2) /\ base_dir[c1] = base_dir[c2])
        => /\ Inside(Val(result[c1]), base_dir[c1])
           /\ Inside(Val(result[c2]), base_dir[c2])
           /\ Parent(Val(result[c1])) = Parent(Val(result[c2]))

\* C7, amended: two results with equal base directories both lie below that
\* directory, each at the depth its user segment and its target's
\* directories give it, not necessarily with the same parent.
BelowBaseDir ==
    \A c1, c2 \in Callers :
        (Returned(c1) /\ Returned(c2) /\ base_dir[c1] = base_dir[c2])
        => /\ Inside(Val(result[c1]), base_dir[c1])
           /\ Inside(Val(result[c2]), base_dir[c2])

\* two results under the same base directory, one nested below the user
\* and the target's directories, the other directly in the base directory
BelowBaseDirWitness ==
    \E c1, c2 \in Callers :
        /\ c1 # c2 /\ Returned(c1) /\ Returned(c2)
        /\ base_dir[c1] = base_dir[c2]
        /\ include_unix_username[c1] /\ path[c1] = Some(custom_foo)
        /\ ~include_unix_username[c2] /\ path[c2] = None

\* C8: get_configured_hdfs_client returns "hadoopcli" with one warning when
\* the runtime is Python 3 and the client is "snakebite" or
\* "snakebite_with_hadoopcli_fallback"; otherwise it returns the configured
\* client with no warning; it never raises.
ClientFallback ==
    \A c \in Callers :
        custom[c] # None =>
            /\ pc[c] = "client"
            /\ error[c] = "none"
            /\ IF PY3[c] /\ (custom[c] = Some(snakebite) \/
                             custom[c] = Some(snakebite_with_hadoopcli_fallback))
               THEN /\ result[c] = Some(<<"h","a","d","o","o","p","c","l","i">>)
                    /\ warned[c] = 1
               ELSE /\ result[c] = custom[c]
                    /\ warned[c] = 0

\* one caller fell back on Python 3, the other kept snakebite on Python 2
ClientFallbackWitness ==
    \E c1, c2 \in Callers :
        /\ pc[c1] = "client" /\ PY3[c1]
        /\ custom[c1] = Some(snakebite_with_hadoopcli_fallback)
        /\ pc[c2] = "client" /\ ~PY3[c2] /\ custom[c2] = Some(snakebite)

\* C9: with no user identity available, a call that includes the user ends
\* in the lookup error with no path returned and no user substituted; a
\* call that does not include the user never raises that error and returns
\* base directory / subdirectory + addon, with no user segment.
UserLookup ==
    \A c \in Callers :
        /\ (pc[c] = "raised" /\ error[c] = "KeyError")
           => include_unix_username[c] /\ identity[c] = None /\ result[c] = None
        /\ (Returned(c) /\ include_unix_username[c])
           => /\ identity[c] # None
              /\ StartsWith(Val(result[c]),
                            base_dir[c] \o <<"/">> \o Val(identity[c]) \o <<"/">>)
        /\ (Returned(c) /\ ~include_unix_username[c])
           => result[c] =
                 Some(base_dir[c] \o <<"/">>
                      \o (IF path[c] = None THEN <<>>
                          ELSE NoLeadingSlashes(
                                   IF StartsWith(Val(path[c]), <<"/","t","m","p","/">>)
                                   THEN SubSeq(Val(path[c]), 5, Len(Val(path[c])))
                                   ELSE urlparse(Val(path[c])).path) \o <<"-">>)
                      \o <<"l","u","i","g","i","t","e","m","p","-">> \o token[c])

\* with no identity available, one call raised the lookup error and the
\* other, which does not include the user, returned
UserLookupWitness ==
    \E c1, c2 \in Callers :
        /\ pc[c1] = "raised" /\ error[c1] = "KeyError"
        /\ identity[c2] = None /\ Returned(c2) /\ ~include_unix_username[c2]

\* C10: the subdirectory does not depend on tmp_dir: two calls that differ
\* only in tmp_dir get the same subdirectory and results that differ only
\* in the base directory; under tmp_dir "/custom" the target "/custom/foo"
\* keeps "custom/foo-" and the target "/tmp/foo" is still stripped to "foo-".
SubdirIgnoresTmpDir ==
    /\ \A c1, c2 \in Callers :
        /\ (pc[c1] = "user" /\ pc[c2] = "user" /\ path[c1] = path[c2])
           => subdir[c1] = subdir[c2]
        /\ (Returned(c1) /\ Returned(c2) /\ path[c1] = path[c2]
                /\ include_unix_username[c1] = include_unix_username[c2]
                /\ identity[c1] = identity[c2] /\ token[c1] = token[c2])
           => /\ StartsWith(Val(result[c1]), base_dir[c1])
              /\ StartsWith(Val(result[c2]), base_dir[c2])
              /\ From(Val(result[c1]), Len(base_dir[c1]))
                     = From(Val(result[c2]), Len(base_dir[c2]))
    /\ \A c \in Callers :
        (pc[c] = "user" /\ tmp_dir[c] = Some(custom_dir)) =>
            /\ path[c] = Some(custom_foo)
               => subdir[c] = <<"c","u","s","t","o","m","/","f","o","o","-">>
            /\ path[c] = Some(tmp_foo) => subdir[c] = <<"f","o","o","-">>

\* the target "/custom/foo" has been given a temporary path once under
\* tmp_dir "/custom" and once with tmp_dir unset
SubdirIgnoresTmpDirWitness ==
    \E c1, c2 \in Callers :
        /\ Returned(c1) /\ Returned(c2)
        /\ path[c1] = Some(custom_foo) /\ path[c2] = Some(custom_foo)
        /\ tmp_dir[c1] = Some(custom_dir) /\ tmp_dir[c2] = None
        /\ include_unix_username[c1] = include_unix_username[c2]
        /\ identity[c1] = identity[c2] /\ token[c1] = token[c2]

====
